---- MODULE Spec2Model ----
(***************************************************************************)
(* Model of the archive-URL normaliser (.scripts/fetch_mca_metadata.py)    *)
(* and of the session-conflict detector (.scripts/session_manager.py).     *)
(*                                                                         *)
(* URLs are TLA+ strings; Python's str methods, urllib.parse and the       *)
(* regular expressions of the scripts are operators over the characters    *)
(* of those strings.                                                       *)
(***************************************************************************)
EXTENDS Integers, Sequences, FiniteSets, TLC

(***************************************************************************)
(* Bounds of the model.                                                    *)
(***************************************************************************)
\* Number of wrapper suffixes stacked behind a base URL on input.
MaxSuffixes == 2
\* Number of session-manager invocations that are started in one behaviour.
MaxRuns == 2

(***************************************************************************)
(* Python str primitives.                                                  *)
(***************************************************************************)
CharAt(s, i) == SubSeq(s, i, i)

CharsOf(s) == { CharAt(s, i) : i \in 1..Len(s) }

\* s[i:] with a 1-based start
From(s, i) == SubSeq(s, i, Len(s))

StartsWithAt(s, i, pre) ==
    /\ i + Len(pre) - 1 <= Len(s)
    /\ SubSeq(s, i, i + Len(pre) - 1) = pre

StartsWith(s, pre) == StartsWithAt(s, 1, pre)

EndsWith(s, suf) ==
    /\ Len(suf) <= Len(s)
    /\ SubSeq(s, Len(s) - Len(suf) + 1, Len(s)) = suf

\* str.find: the 1-based index of the first occurrence of sub at or after
\* start, 0 when there is none
FindFrom(s, sub, start) ==
    LET hits == { i \in start..Len(s) : StartsWithAt(s, i, sub) }
    IN  IF hits = {} THEN 0 ELSE CHOOSE i \in hits : \A j \in hits : i <= j

Find(s, sub) == FindFrom(s, sub, 1)

\* str.rfind
RFind(s, sub) ==
    LET hits == { i \in 1..Len(s) : StartsWithAt(s, i, sub) }
    IN  IF hits = {} THEN 0 ELSE CHOOSE i \in hits : \A j \in hits : i >= j

Contains(s, sub) == \/ sub = ""
                    \/ Find(s, sub) # 0

\* The end (inclusive) of the longest run of characters outside stop that
\* starts at i; i - 1 when the run is empty.
RunEnd(s, i, stop) ==
    LET bad == { j \in i..Len(s) : CharAt(s, j) \in stop }
    IN  IF bad = {} THEN Len(s)
        ELSE (CHOOSE j \in bad : \A k \in bad : j <= k) - 1

\* str.rstrip(chars): chars is a SET of characters, every trailing character
\* that belongs to it is removed
RStripChars(s, chars) ==
    LET keep == { i \in 1..Len(s) : CharAt(s, i) \notin chars }
    IN  IF keep = {} THEN ""
        ELSE SubSeq(s, 1, CHOOSE i \in keep : \A j \in keep : i >= j)

LStripChars(s, chars) ==
    LET keep == { i \in 1..Len(s) : CharAt(s, i) \notin chars }
    IN  IF keep = {} THEN ""
        ELSE From(s, CHOOSE i \in keep : \A j \in keep : i <= j)

rstrip(s, arg) == RStripChars(s, CharsOf(arg))

Whitespace == {" ", "\t", "\n", "\r"}

\* str.strip() without argument
strip(s) == LStripChars(RStripChars(s, Whitespace), Whitespace)

\* str.strip(chars)
strip_chars(s, arg) == LStripChars(RStripChars(s, CharsOf(arg)), CharsOf(arg))

\* str.rsplit(sep, 1)[0]: what precedes the last separator
SplitFirst_last(s, sep) ==
    IF RFind(s, sep) = 0 THEN s ELSE SubSeq(s, 1, RFind(s, sep) - 1)

\* str.split(sep)[0]
SplitFirst(s, sep) ==
    IF Find(s, sep) = 0 THEN s ELSE SubSeq(s, 1, Find(s, sep) - 1)

\* str.split(sep)[-1]
SplitLast(s, sep) ==
    IF RFind(s, sep) = 0 THEN s ELSE From(s, RFind(s, sep) + Len(sep))

(***************************************************************************)
(* urllib.parse.                                                           *)
(***************************************************************************)
\* The value of a variable or a key that is not set (Python's None).
PyNone == "<py:None>"

\* None and the empty string are the falsy strings
Falsy(s) == s = PyNone \/ s = ""

UpperLetters == "ABCDEFGHIJKLMNOPQRSTUVWXYZ"
LowerLetters == "abcdefghijklmnopqrstuvwxyz"
Digits == "0123456789"

\* str.lower() of one character
LowerChar(c) ==
    IF Find(UpperLetters, c) = 0 THEN c
    ELSE CharAt(LowerLetters, Find(UpperLetters, c))

\* The concatenation of Piece(lo), ..., Piece(hi), halving the range
RECURSIVE JoinRange(_, _, _)
JoinRange(Piece(_), lo, hi) ==
    IF lo > hi THEN ""
    ELSE IF lo = hi THEN Piece(lo)
    ELSE JoinRange(Piece, lo, (lo + hi) \div 2)
            \o JoinRange(Piece, (lo + hi) \div 2 + 1, hi)

\* str.lower()
lower(s) ==
    LET Piece(i) == LowerChar(CharAt(s, i))
    IN  JoinRange(Piece, 1, Len(s))

\* urllib.parse.scheme_chars
SchemeChars ==
    CharsOf(UpperLetters) \cup CharsOf(LowerLetters) \cup CharsOf(Digits)
        \cup {"+", "-", "."}

\* urllib.parse.uses_params
UsesParams ==
    {"", "ftp", "hdl", "prospero", "http", "imap", "https", "shttp", "rtsp",
     "rtspu", "sip", "sips", "mms", "sftp", "tel"}

\* urlsplit, last step: the query is cut off at the first '?'
SplitQuery(scheme, netloc, rest, fragment) ==
    LET qm == Find(rest, "?")
    IN  [scheme   |-> scheme,
         netloc   |-> netloc,
         path     |-> IF qm = 0 THEN rest ELSE SubSeq(rest, 1, qm - 1),
         query    |-> IF qm = 0 THEN "" ELSE From(rest, qm + 1),
         fragment |-> fragment]

\* urlsplit, third step: the fragment is cut off at the first '#'
SplitFragment(scheme, netloc, rest) ==
    LET hash == Find(rest, "#")
    IN  IF hash = 0 THEN SplitQuery(scheme, netloc, rest, "")
        ELSE SplitQuery(scheme, netloc, SubSeq(rest, 1, hash - 1),
                        From(rest, hash + 1))

\* urlsplit, second step: behind "//" the netloc runs to the first of / ? #
SplitNetloc(scheme, rest) ==
    IF StartsWith(rest, "//")
    THEN SplitFragment(scheme,
                       SubSeq(rest, 3, RunEnd(rest, 3, {"/", "?", "#"})),
                       From(rest, RunEnd(rest, 3, {"/", "?", "#"}) + 1))
    ELSE SplitFragment(scheme, "", rest)

\* urlsplit, first step: the scheme is what precedes the first ':' when it
\* consists of scheme characters
SplitScheme(url) ==
    LET colon == Find(url, ":")
    IN  IF /\ colon > 1
           /\ \A i \in 1..(colon - 1) : CharAt(url, i) \in SchemeChars
        THEN SplitNetloc(lower(SubSeq(url, 1, colon - 1)),
                         From(url, colon + 1))
        ELSE SplitNetloc("", url)

\* urllib.parse.urlsplit: leading blanks are dropped before the URL is split
urlsplit(url) == SplitScheme(LStripChars(url, Whitespace))

\* urllib.parse._splitparams: the index of the ';' that starts the params of
\* the last path segment, 0 when there is none
SplitParamsAt(path) ==
    IF Contains(path, "/") THEN FindFrom(path, ";", RFind(path, "/"))
    ELSE Find(path, ";")

\* urlparse, last step: the params are cut off the path of the split URL
WithParams(sp) ==
    LET semi == IF sp.scheme \in UsesParams /\ Contains(sp.path, ";")
                THEN SplitParamsAt(sp.path) ELSE 0
    IN  [scheme   |-> sp.scheme,
         netloc   |-> sp.netloc,
         path     |-> IF semi = 0 THEN sp.path
                      ELSE SubSeq(sp.path, 1, semi - 1),
         params   |-> IF semi = 0 THEN "" ELSE From(sp.path, semi + 1),
         query    |-> sp.query,
         fragment |-> sp.fragment]

\* urllib.parse.urlparse
urlparse(url) == WithParams(urlsplit(url))

\* The percent escapes of the model's alphabet and the character each stands
\* for.
PercentCodes ==
    { <<"%20", " ">>, <<"%25", "%">>, <<"%2F", "/">>, <<"%2f", "/">>,
      <<"%3F", "?">>, <<"%3f", "?">>, <<"%23", "#">>, <<"%2E", ".">>,
      <<"%2e", ".">>, <<"%61", "a">> }

\* The escapes that start at position i of s
EscapesAt(s, i) == { pc \in PercentCodes : StartsWithAt(s, i, pc[1]) }

\* unquote that leaves every escape in place
unquote_kept(s) == s

\* urllib.parse.unquote: every escape is replaced by its character in one
\* pass (escapes cannot overlap: the two characters behind a '%' are hex
\* digits); a '%' that starts no escape is kept
unquote(s) ==
    LET Piece(i) ==
            IF EscapesAt(s, i) # {}
            THEN (CHOOSE pc \in EscapesAt(s, i) : TRUE)[2]
            ELSE IF \E j \in {i - 2, i - 1} : j >= 1 /\ EscapesAt(s, j) # {}
            THEN ""
            ELSE CharAt(s, i)
    IN  JoinRange(Piece, 1, Len(s))

(***************************************************************************)
(* The regular expressions of fetch_mca_metadata.py.  A match is a record; *)
(* ok tells whether the pattern matched, g1 and g2 are its groups.         *)
(***************************************************************************)
NoMatch == [ok |-> FALSE, g1 |-> "", g2 |-> ""]

\* prefix ([^/]+) /files/ ([^/?]+) anchored at position i of s
\* (both groups are greedy and cannot cross a '/', so each is the whole run)
MatchIdFilesAt(s, i, prefix) ==
    IF ~StartsWithAt(s, i, prefix) THEN NoMatch
    ELSE LET idFrom == i + Len(prefix)
             idTo   == RunEnd(s, idFrom, {"/"})
             nmFrom == idTo + 1 + Len("/files/")
             nmTo   == RunEnd(s, nmFrom, {"/", "?"})
         IN  IF /\ idTo >= idFrom
                /\ StartsWithAt(s, idTo + 1, "/files/")
                /\ nmTo >= nmFrom
             THEN [ok |-> TRUE, g1 |-> SubSeq(s, idFrom, idTo),
                   g2 |-> SubSeq(s, nmFrom, nmTo)]
             ELSE NoMatch

\* re.match(r'/api/records/([^/]+)/files/([^/?]+)', path)
ApiMatch(path) == MatchIdFilesAt(path, 1, "/api/records/")

\* re.match(r'/records/([^/]+)/files/([^/?]+)', path)
RecordsFilesMatch(path) == MatchIdFilesAt(path, 1, "/records/")

\* re.match(r'/records/[^/]+/files/[^/]+\.aiida$', path)
CanonicalMatch(path) ==
    LET idFrom == Len("/records/") + 1
        idTo   == RunEnd(path, idFrom, {"/"})
        nmFrom == idTo + 1 + Len("/files/")
    IN  /\ StartsWith(path, "/records/")
        /\ idTo >= idFrom
        /\ StartsWithAt(path, idTo + 1, "/files/")
        /\ RunEnd(path, nmFrom, {"/"}) = Len(path)
        /\ Len(path) - nmFrom + 1 >= Len(".aiida") + 1
        /\ EndsWith(path, ".aiida")

\* re.match(r'/record/([^/?]+)', path)
OldRecordMatch(path) ==
    LET idFrom == Len("/record/") + 1
        idTo   == RunEnd(path, idFrom, {"/", "?"})
    IN  IF StartsWith(path, "/record/") /\ idTo >= idFrom
        THEN [ok |-> TRUE, g1 |-> SubSeq(path, idFrom, idTo), g2 |-> ""]
        ELSE NoMatch

\* re.match(r'/records/([^/?]+)/?$', path)
RecordsOnlyMatch(path) ==
    LET idFrom == Len("/records/") + 1
        idTo   == RunEnd(path, idFrom, {"/", "?"})
    IN  IF /\ StartsWith(path, "/records/")
           /\ idTo >= idFrom
           /\ \/ idTo = Len(path)
              \/ idTo + 1 = Len(path) /\ CharAt(path, Len(path)) = "/"
        THEN [ok |-> TRUE, g1 |-> SubSeq(path, idFrom, idTo), g2 |-> ""]
        ELSE NoMatch

\* The search without the closing '/': r"/records/([^/]+)"
RecordsSearch_open(path) ==
    LET ok(i) == /\ StartsWithAt(path, i, "/records/")
                 /\ RunEnd(path, i + 9, {"/"}) >= i + 9
        hits  == { i \in 1..Len(path) : ok(i) }
        at    == CHOOSE i \in hits : \A j \in hits : i <= j
    IN  IF hits = {} THEN NoMatch
        ELSE [ok |-> TRUE, g2 |-> "",
              g1 |-> SubSeq(path, at + 9, RunEnd(path, at + 9, {"/"}))]

\* re.search(r"/records/([^/]+)/", path): the leftmost position where
\* "/records/", a non-empty id and a closing '/' follow one another
RecordsSearch(path) ==
    LET ok(i) == /\ StartsWithAt(path, i, "/records/")
                 /\ RunEnd(path, i + 9, {"/"}) >= i + 9
                 /\ RunEnd(path, i + 9, {"/"}) < Len(path)
        hits  == { i \in 1..Len(path) : ok(i) }
        at    == CHOOSE i \in hits : \A j \in hits : i <= j
    IN  IF hits = {} THEN NoMatch
        ELSE [ok |-> TRUE, g2 |-> "",
              g1 |-> SubSeq(path, at + 9, RunEnd(path, at + 9, {"/"}))]

\* re.search(r"/files/([^/?]+)", path)
FilesSearch(path) ==
    LET ok(i) == /\ StartsWithAt(path, i, "/files/")
                 /\ RunEnd(path, i + 7, {"/", "?"}) >= i + 7
        hits  == { i \in 1..Len(path) : ok(i) }
        at    == CHOOSE i \in hits : \A j \in hits : i <= j
    IN  IF hits = {} THEN NoMatch
        ELSE [ok |-> TRUE, g2 |-> "",
              g1 |-> SubSeq(path, at + 7, RunEnd(path, at + 7, {"/", "?"}))]

(***************************************************************************)
(* fetch_mca_metadata.py: the normaliser.                                  *)
(***************************************************************************)
\* The host the scripts expect.
ArchiveDomain == "materialscloud.org"

\* The extension of an archive file.
AiidaExt == ".aiida"

\* suffixes_to_remove, in the order the loop visits them
suffixes_to_remove == <<"/content", "/download", "?download=1", "?dl=1">>

\* One turn of the suffix loop: when the URL ends with the suffix,
\* archive_url.rstrip(suffix) is taken
StripOneSuffix(url, suffix) ==
    IF EndsWith(url, suffix) THEN rstrip(url, suffix) ELSE url

\* The suffix loop followed by rstrip('/')
RECURSIVE StripSuffixesFrom(_, _)
StripSuffixesFrom(url, k) ==
    IF k > Len(suffixes_to_remove) THEN url
    ELSE StripSuffixesFrom(StripOneSuffix(url, suffixes_to_remove[k]), k + 1)

StripWrappers(url) == rstrip(StripSuffixesFrom(url, 1), "/")

\* 'materialscloud.org' in parsed.netloc
TrustedHost(netloc) == Contains(netloc, ArchiveDomain)

\* The clean URL with the API prefix left in
CleanUrl_api(parsed, record_id, filename) ==
    parsed.scheme \o "://" \o parsed.netloc \o "/api/records/" \o record_id
        \o "/files/" \o filename

\* f"{parsed.scheme}://{parsed.netloc}/records/{record_id}/files/{filename}"
CleanUrl(parsed, record_id, filename) ==
    parsed.scheme \o "://" \o parsed.netloc \o "/records/" \o record_id
        \o "/files/" \o filename

\* One result of normalize_archive_url: the returned string, the branch
\* that returned it (the branch decides which message is printed), the record
\* id that branch names, the string handed to urlparse (matched), and the
\* number of calls of the function it took.
Result(url, branch, record_id, matched) ==
    [url |-> url, branch |-> branch, record_id |-> record_id,
     matched |-> matched, calls |-> 1]

\* normalize_archive_url from the host check on: archive_url is the stripped
\* URL, parsed its components, retry the result of the recursive call on
\* the URL without its query
MatchPatterns(archive_url, parsed, retry) ==
    LET path  == parsed.path
        api   == ApiMatch(path)
        old   == OldRecordMatch(path)
        only  == RecordsOnlyMatch(path)
        files == RecordsFilesMatch(path)
    IN  IF ~TrustedHost(parsed.netloc)
        THEN Result(archive_url, "untrusted_host", "", archive_url)
        ELSE IF api.ok
        THEN IF ~EndsWith(unquote(api.g2), AiidaExt)
             THEN Result(archive_url, "api_wrong_type", api.g1, archive_url)
             ELSE Result(CleanUrl(parsed, api.g1, unquote(api.g2)),
                         "api_rewrite", api.g1, archive_url)
        ELSE IF CanonicalMatch(path)
        THEN Result(archive_url, "canonical", files.g1, archive_url)
        ELSE IF old.ok
        THEN Result(archive_url, "old_record", old.g1, archive_url)
        ELSE IF only.ok
        THEN Result(archive_url, "records_only", only.g1, archive_url)
        ELSE IF files.ok
        THEN IF ~EndsWith(unquote(files.g2), AiidaExt)
             THEN Result(archive_url, "files_wrong_type", files.g1,
                         archive_url)
             ELSE Result(CleanUrl(parsed, files.g1, unquote(files.g2)),
                         "files_rewrite", files.g1, archive_url)
        ELSE IF Contains(archive_url, "?")
        THEN [retry EXCEPT !.calls = @ + 1, !.matched = archive_url]
        ELSE Result(archive_url, "unrecognized", "", archive_url)

\* normalize_archive_url
RECURSIVE normalize_archive_url(_)
normalize_archive_url(archive_url) ==
    IF Falsy(archive_url) \/ strip(archive_url) = ""
    THEN Result(archive_url, "empty", "", archive_url)
    ELSE LET Stripped(stripped) ==
                 MatchPatterns(stripped, urlparse(stripped),
                               normalize_archive_url(SplitFirst(stripped, "?")))
         IN  Stripped(StripWrappers(strip(archive_url)))

\* extract_record_id_from_url: the id, PyNone when the path names none
extract_record_id_from_url(archive_url) ==
    LET m == RecordsSearch(urlparse(archive_url).path)
    IN  IF m.ok THEN m.g1 ELSE PyNone

\* get_archive_filename_from_url: the decoded file name, PyNone without one
get_archive_filename_from_url(archive_url) ==
    LET m == FilesSearch(urlparse(archive_url).path)
    IN  IF m.ok THEN unquote(m.g1) ELSE PyNone

(***************************************************************************)
(* fetch_mca_metadata.py: the command line entry point.                    *)
(***************************************************************************)
\* The result of normalize_archive_url before the function has run.
NotNormalized ==
    [url |-> PyNone, branch |-> "not_run", record_id |-> "",
     matched |-> PyNone, calls |-> 0]

\* main, for the URL get_archive_url returned and the outcome of the metadata
\* request (api_ok): the exit status, the record id handed to
\* fetch_mca_metadata (PyNone when no request is made) and the archive_url
\* and archive_filename written to the metadata artifact (PyNone when no
\* artifact is written).
main(archive_url, api_ok) ==
    LET n   == normalize_archive_url(archive_url)
        rid == extract_record_id_from_url(n.url)
        rejected(e, fetched) ==
            [normalized |-> e, exit_code |-> 1, fetched |-> fetched,
             metadata_url |-> PyNone, metadata_filename |-> PyNone]
    IN  IF Falsy(archive_url) THEN rejected(NotNormalized, PyNone)
        ELSE IF ~EndsWith(n.url, AiidaExt) THEN rejected(n, PyNone)
        ELSE IF Falsy(rid) THEN rejected(n, PyNone)
        ELSE IF ~api_ok THEN rejected(n, rid)
        ELSE [normalized |-> n, exit_code |-> 0, fetched |-> rid,
              metadata_url |-> n.url,
              metadata_filename |-> get_archive_filename_from_url(n.url)]

(***************************************************************************)
(* session_manager.py: values read from and written to the session file.   *)
(* A JSON scalar is a tagged string; a JSON document adds the members of   *)
(* an object (or the items of a list, keyed "0", "1", ...).                *)
(***************************************************************************)
JNull == [t |-> "null", v |-> ""]
JStr(s) == [t |-> "str", v |-> s]
JNum(n) == [t |-> "num", v |-> ToString(n)]

\* the JSON value of a Python string-or-None
JOf(s) == IF s = PyNone THEN JNull ELSE JStr(s)

NoFields == [k \in {} |-> JNull]

Scalar(j) == [t |-> j.t, v |-> j.v, fields |-> NoFields]
JList(items) == [t |-> "list", v |-> "", fields |-> items]
JObj(members) == [t |-> "obj", v |-> "", fields |-> members]

\* Python's None as the value of existing_session
NoneDoc == Scalar(JNull)

\* bool(x) of a loaded document
Truthy(doc) ==
    CASE doc.t = "null" -> FALSE
      [] doc.t = "num"  -> doc.v # "0"
      [] doc.t = "str"  -> doc.v # ""
      [] OTHER          -> DOMAIN doc.fields # {}

\* dict.get(key): the member, None when the key is missing
Get(doc, key) == IF key \in DOMAIN doc.fields THEN doc.fields[key] ELSE JNull

\* The session file: missing, or present with content of one of four kinds.
FileAbsent == [kind |-> "absent", doc |-> NoneDoc]
FileUnreadable == [kind |-> "unreadable", doc |-> NoneDoc]
FileUndecodable == [kind |-> "undecodable", doc |-> NoneDoc]
FileInvalidJson == [kind |-> "invalid_json", doc |-> NoneDoc]
FileJson(doc) == [kind |-> "json", doc |-> doc]

\* The session file while writers overwrite it: what open(..., "w") leaves
\* (no bytes) and what a shorter dump leaves when it lands on a longer one
\* (its own text followed by the rest of the other); neither is JSON
FileTorn(bytes) == [kind |-> "invalid_json", doc |-> NoneDoc, bytes |-> bytes]
\* The session file after an open that leaves the old bytes in place
FileEmpty_kept == FileTorn(1000)

FileEmpty == FileTorn(0)

\* len(json.dumps(session_data, indent=2)) for a record of string members
\* and a pid
BytesOf(doc) ==
    73 + Len(doc.fields["session_id"].v) + Len(doc.fields["archive_url"].v)
       + Len(doc.fields["timestamp"].v) + Len(doc.fields["pid"].v)

\* The size of the session file a writer finds between its open and its close
Bytes(file) ==
    IF "bytes" \in DOMAIN file THEN file.bytes
    ELSE IF file.kind = "json" THEN BytesOf(file.doc) ELSE 0

\* The file after a writer that opened it earlier writes its dump at offset 0
\* and closes
Overwritten(file, session_data) ==
    IF Bytes(file) > BytesOf(session_data) THEN FileTorn(Bytes(file))
    ELSE FileJson(session_data)

(***************************************************************************)
(* session_manager.py: SessionManager.                                     *)
(***************************************************************************)
\* Range of the digest in the model (the script keeps 12 hex digits of MD5).
HashSpace == 9973

\* The characters of the identity strings, for the digest.
DigestAlphabet ==
    "abcdefghijklmnopqrstuvwxyz0123456789-_{}:,. \"" \o UpperLetters

\* The position of each character in the digest alphabet
CharCode ==
    [c \in CharsOf(DigestAlphabet) |-> Find(DigestAlphabet, c)]

\* The contribution of the characters lo..hi of s to the digest
RECURSIVE DigestRange(_, _, _)
DigestRange(s, lo, hi) ==
    IF lo > hi THEN 0
    ELSE IF lo = hi
    THEN (CharCode[CharAt(s, lo)] * (1 + (lo % 89))) % HashSpace
    ELSE (DigestRange(s, lo, (lo + hi) \div 2)
            + DigestRange(s, (lo + hi) \div 2 + 1, hi)) % HashSpace

\* hashlib.md5(...).hexdigest()[:12], as a deterministic digest of fixed range
md5_12(s) == ToString(DigestRange(s, 1, Len(s)))

\* os.environ.get(name, default)
EnvGet(env, name, default) == IF env[name] = PyNone THEN default ELSE env[name]

\* json.dumps(session_data, sort_keys=True)
SessionString(env) ==
    "{\"pod_name\": \"" \o EnvGet(env, "HOSTNAME", "unknown")
    \o "\", \"user\": \""
    \o EnvGet(env, "RENKU_USERNAME", EnvGet(env, "USER", "unknown"))
    \o "\", \"workspace\": \""
    \o EnvGet(env, "RENKU_PROJECT_NAME", "unknown") \o "\"}"

\* SessionManager.get_session_id
get_session_id(env) == md5_12(SessionString(env))

\* SessionManager.load_current_session: the document (None when the file is
\* missing, unreadable or not JSON), or the exception that escapes
load_current_session(file) ==
    CASE file.kind = "absent"       -> [raised |-> "", doc |-> NoneDoc]
      [] file.kind = "unreadable"   -> [raised |-> "", doc |-> NoneDoc]
      [] file.kind = "invalid_json" -> [raised |-> "", doc |-> NoneDoc]
      [] file.kind = "undecodable"  ->
            [raised |-> "UnicodeDecodeError", doc |-> NoneDoc]
      [] OTHER                      -> [raised |-> "", doc |-> file.doc]

\* The outcome of check_session_conflict when an exception escapes it.
Raised(exc) == [raised |-> exc, outcome |-> "raised", existing |-> NoneDoc]

\* check_session_conflict that looks at the URL before the session id
check_session_conflict_url_first(file, env, current_archive_url) ==
    LET loaded == load_current_session(file)
        existing_session == loaded.doc
        current_session_id == get_session_id(env)
    IN  IF loaded.raised # "" THEN Raised(loaded.raised)
        ELSE IF ~Truthy(existing_session)
        THEN [raised |-> "", outcome |-> "new_session", existing |-> NoneDoc]
        ELSE IF existing_session.t # "obj"
        THEN Raised("TypeError")
        ELSE IF "session_id" \notin DOMAIN existing_session.fields
        THEN Raised("KeyError")
        ELSE IF Get(existing_session, "archive_url") = JOf(current_archive_url)
        THEN [raised |-> "", outcome |-> "same_session",
              existing |-> existing_session]
        ELSE IF existing_session.fields["session_id"] = JStr(current_session_id)
        THEN [raised |-> "", outcome |-> "url_changed",
              existing |-> existing_session]
        ELSE [raised |-> "", outcome |-> "session_conflict",
              existing |-> existing_session]

\* SessionManager.check_session_conflict
check_session_conflict(file, env, current_archive_url) ==
    LET loaded == load_current_session(file)
        existing_session == loaded.doc
        current_session_id == get_session_id(env)
    IN  IF loaded.raised # "" THEN Raised(loaded.raised)
        ELSE IF ~Truthy(existing_session)
        THEN [raised |-> "", outcome |-> "new_session", existing |-> NoneDoc]
        ELSE IF existing_session.t # "obj"
        THEN Raised("TypeError")
        ELSE IF "session_id" \notin DOMAIN existing_session.fields
        THEN Raised("KeyError")
        ELSE IF existing_session.fields["session_id"] = JStr(current_session_id)
        THEN IF Get(existing_session, "archive_url") = JOf(current_archive_url)
             THEN [raised |-> "", outcome |-> "same_session",
                   existing |-> existing_session]
             ELSE [raised |-> "", outcome |-> "url_changed",
                   existing |-> existing_session]
        ELSE [raised |-> "", outcome |-> "session_conflict",
              existing |-> existing_session]

\* The record save_current_session writes
SessionRecord(env, archive_url, timestamp, pid) ==
    JObj([k \in {"session_id", "archive_url", "timestamp", "pid"} |->
            CASE k = "session_id"  -> JStr(get_session_id(env))
              [] k = "archive_url" -> JOf(archive_url)
              [] k = "timestamp"   -> JStr(timestamp)
              [] OTHER             -> JNum(pid)])

\* generate_conflict_message fails when it slices a timestamp that is not a
\* string (session_conflict only) or formats an archive_url that is neither a
\* string nor falsy
MessageRaises(conflict_type, existing_session) ==
    \/ /\ conflict_type = "session_conflict"
       /\ "timestamp" \in DOMAIN existing_session.fields
       /\ existing_session.fields["timestamp"].t # "str"
    \/ /\ Get(existing_session, "archive_url").t = "num"
       /\ Get(existing_session, "archive_url").v # "0"

\* urlparse raises ValueError ("Invalid IPv6 URL") when the netloc holds one
\* square bracket without the other
UrlparseRaises(url) ==
    Contains(urlsplit(url).netloc, "[") # Contains(urlsplit(url).netloc, "]")

\* get_archive_info, final fallback: url[:50] + "..." if len(url) > 50 else url
Truncated(url) ==
    IF Len(url) > 50 THEN SubSeq(url, 1, 50) \o "..." ELSE url

\* get_archive_info, the try block for the path of the parsed URL: the file
\* name, with the record id when there is one, else the last part of the path
InfoOfPath(path, files_match, records_match) ==
    IF files_match.ok
    THEN IF records_match.ok
         THEN unquote(files_match.g1) \o " (record: " \o records_match.g1
                \o ")"
         ELSE unquote(files_match.g1)
    ELSE SplitLast(strip_chars(path, "/"), "/")

\* SessionManager.get_archive_info
get_archive_info(url) ==
    IF Falsy(url) THEN "None"
    ELSE IF UrlparseRaises(url) THEN Truncated(url)
    ELSE InfoOfPath(urlparse(url).path, FilesSearch(urlparse(url).path),
                    RecordsSearch(urlparse(url).path))

(***************************************************************************)
(* State.                                                                  *)
(***************************************************************************)
VARIABLES
    \* fetch_mca_metadata.py, last invocation
    cli_flag,           \* --archive-url: a base and the parts put behind it
    cli_env,            \* the archive_url environment variable
    archive_url,        \* what get_archive_url returned
    normalized,         \* what normalize_archive_url returned
    exit_code,          \* -1 while the script has not run, then 0 or 1
    fetched,            \* record id requested from the archive API, or PyNone
    metadata_url,       \* archive_url of /tmp/mca_metadata.json, or PyNone
    metadata_filename,  \* archive_filename of the artifact, or PyNone
    \* session_manager.py, files
    session_file,       \* <cache_dir>/current_session.json
    warning_file,       \* /tmp/session_warning.txt: "absent" or the message kind
    summary_file,       \* /tmp/session_conflict_summary.json: "absent" or kind
    notice_file,        \* /tmp/session_conflict_notice.md exists
    now,                \* the clock behind datetime.utcnow()
    \* session_manager.py, one invocation per process slot
    sm_pc, sm_env, sm_url, sm_outcome, sm_existing,
    sm_file,            \* position of the clean-up loop in CleanupPaths
    sm_data,            \* session_data of save_current_session
    sm_runs,            \* invocations started so far
    \* session_manager.py, get_archive_info
    info_url,           \* the URL get_archive_info is called on
    info                \* what it returned, PyNone before the call

cli_vars == <<cli_flag, cli_env, archive_url, normalized, exit_code, fetched,
              metadata_url, metadata_filename>>
file_vars == <<session_file, warning_file, summary_file, notice_file, now>>
sm_vars == <<sm_pc, sm_env, sm_url, sm_outcome, sm_existing, sm_file, sm_data,
             sm_runs>>
info_vars == <<info_url, info>>
vars == <<cli_vars, file_vars, sm_vars, info_vars>>

(***************************************************************************)
(* Inputs of fetch_mca_metadata.py.                                        *)
(***************************************************************************)
ArchiveHost == "https://archive.materialscloud.org"
ExampleHost == "https://archive.example.org"
LookalikeHost == "https://materialscloud.org.example.net"

\* URLs on the archive host
ArchivePaths ==
    { "/api/records/yf0rj-w3r97/files/data%20set.aiida",
      "/api/records/yf0rj-w3r97/files/x.aiida%2Fy.aiida",
      "/api/records/yf0rj-w3r97/files/notes.txt",
      "/api/records/x.aiida/files/a%2Eaiida",
      "/records/yf0rj-w3r97/files/data%20set.aiida",
      "/records/yf0rj-w3r97/files/a%2Eaiida",
      "/records/yf0rj-w3r97/files/notes.txt",
      "/records/yf0rj-w3r97",
      "/record/yf0rj-w3r97",
      "/records/x.aiida",
      "/record/x.aiida",
      "/records/download",
      "/search" }

\* URLs on other hosts
ForeignUrls ==
    { ExampleHost \o "/api/records/yf0rj-w3r97/files/data%20set.aiida",
      ExampleHost \o "/records/yf0rj-w3r97/files/a.aiida",
      ExampleHost \o "/records/yf0rj-w3r97",
      LookalikeHost \o "/records/yf0rj-w3r97/files/a.aiida" }

BaseUrls == { ArchiveHost \o p : p \in ArchivePaths } \cup ForeignUrls

\* The download wrappers the normaliser knows
WrapperSuffixes == { suffixes_to_remove[k] : k \in 1..Len(suffixes_to_remove) }

\* What a link may carry behind the base URL: a wrapper, a slash, another
\* query, another path segment
TailParts == WrapperSuffixes \cup {"/", "?a=b", "/x.aiida"}

Tails == UNION { [1..n -> TailParts] : n \in 0..MaxSuffixes }

RECURSIVE Concat(_)
Concat(parts) ==
    IF parts = <<>> THEN "" ELSE Head(parts) \o Concat(Tail(parts))

UrlOf(input) == IF input.base = PyNone THEN PyNone
                ELSE input.base \o Concat(input.tail)

NoInput == [base |-> PyNone, tail |-> <<>>]

\* --archive-url: not given, empty, blank, or a URL
FlagInputs ==
    { NoInput, [base |-> "", tail |-> <<>>], [base |-> " ", tail |-> <<>>] }
        \cup { [base |-> b, tail |-> t] : b \in BaseUrls, t \in Tails }

\* the archive_url environment variable: unset or a URL
EnvInputs ==
    { NoInput,
      [base |-> ArchiveHost \o "/records/yf0rj-w3r97/files/env.aiida",
       tail |-> <<>>] }

(***************************************************************************)
(* Inputs of session_manager.py.                                           *)
(***************************************************************************)
Procs == {1, 2}

EnvNames == {"RENKU_USERNAME", "USER", "RENKU_PROJECT_NAME", "HOSTNAME"}

MkEnv(renku_user, user, project, host) ==
    [k \in EnvNames |->
        CASE k = "RENKU_USERNAME"     -> renku_user
          [] k = "USER"               -> user
          [] k = "RENKU_PROJECT_NAME" -> project
          [] OTHER                    -> host]

\* alice through USER, alice through RENKU_USERNAME, bob on another pod
Environments ==
    { MkEnv(PyNone, "alice", "proj", "pod-1"),
      MkEnv("alice", "jovyan", "proj", "pod-1"),
      MkEnv(PyNone, "bob", PyNone, "pod-2") }

NoEnv == MkEnv(PyNone, PyNone, PyNone, PyNone)

\* os.environ.get("archive_url")
SessionUrls == { PyNone,
                 ArchiveHost \o "/records/r1/files/a.aiida",
                 ArchiveHost \o "/records/r2/files/b.aiida" }

\* Records as save_current_session writes them
WellFormedRecords ==
    { SessionRecord(e, u, "2024-01-01T00:00:00.000000", 4242) :
        e \in Environments, u \in (SessionUrls \ {PyNone}) \cup {""} }

WellFormed(doc) ==
    /\ doc.t = "obj"
    /\ DOMAIN doc.fields = {"session_id", "archive_url", "timestamp", "pid"}
    /\ doc.fields["session_id"].t = "str"
    /\ doc.fields["archive_url"].t = "str"
    /\ doc.fields["timestamp"].t = "str"
    /\ doc.fields["pid"].t = "num"

\* JSON documents that are no session record
MalformedDocs ==
    { Scalar(JNull), Scalar(JNum(0)), Scalar(JNum(5)), Scalar(JStr("")),
      Scalar(JStr("abc")),
      JList(NoFields), JList([k \in {"0"} |-> JNum(1)]),
      JObj(NoFields),
      JObj([k \in {"archive_url"} |->
                JStr(ArchiveHost \o "/records/r1/files/a.aiida")]) }

\* Objects that carry a session id but are no record of save_current_session:
\* members missing, a null timestamp, a number as archive_url
ForeignRecords ==
    { JObj([k \in {"session_id"} |-> JStr(get_session_id(e))]) :
        e \in Environments }
    \cup { JObj([k \in {"session_id", "archive_url", "timestamp"} |->
                    CASE k = "session_id"  -> JStr(get_session_id(e))
                      [] k = "archive_url" -> JStr("")
                      [] OTHER             -> JNull]) : e \in Environments }
    \cup { JObj([k \in {"session_id", "archive_url", "timestamp"} |->
                    CASE k = "session_id"  -> JStr(get_session_id(e))
                      [] k = "archive_url" -> JNum(5)
                      [] OTHER             -> JStr("2024-01-01T00:00:00")]) :
            e \in Environments }

\* What the session file can hold when an invocation starts
FileContents ==
    { FileAbsent, FileUnreadable, FileUndecodable, FileInvalidJson }
        \cup { FileJson(d) :
                    d \in MalformedDocs \cup ForeignRecords \cup WellFormedRecords }

(***************************************************************************)
(* Initial states.                                                         *)
(***************************************************************************)
\* The command lines and environments the script is started with: the
\* variable only matters when the flag is missing or empty
CliStarts ==
    { <<f, NoInput>> : f \in FlagInputs }
        \cup { <<f, e>> : f \in { g \in FlagInputs : Falsy(UrlOf(g)) },
                          e \in EnvInputs }

CliIdle ==
    /\ archive_url = PyNone
    /\ normalized = NotNormalized
    /\ exit_code = -1
    /\ fetched = PyNone
    /\ metadata_url = PyNone
    /\ metadata_filename = PyNone

\* The warning artifacts when an invocation starts: none, or those an earlier
\* conflict left in /tmp
StaleArtifacts ==
    { <<"absent", "absent">>, <<"session_conflict", "session_conflict">> }

\* /tmp holds no warning artifact
NoArtifacts == warning_file = "absent" /\ summary_file = "absent"

\* /tmp holds what earlier invocations left
LeftArtifacts ==
    \E left \in StaleArtifacts :
        warning_file = left[1] /\ summary_file = left[2]

SmInit ==
    /\ notice_file = FALSE
    /\ now = 0
    /\ sm_pc = [p \in Procs |-> "idle"]
    /\ sm_env = [p \in Procs |-> NoEnv]
    /\ sm_url = [p \in Procs |-> PyNone]
    /\ sm_outcome = [p \in Procs |-> "none"]
    /\ sm_existing = [p \in Procs |-> NoneDoc]
    /\ sm_file = [p \in Procs |-> 0]
    /\ sm_data = [p \in Procs |-> NoneDoc]
    /\ sm_runs = 0

\* No call of get_archive_info is looked at
InfoIdle == info_url = PyNone /\ info = PyNone

\* fetch_mca_metadata.py alone
InitFetch ==
    /\ \E st \in CliStarts : cli_flag = st[1] /\ cli_env = st[2]
    /\ CliIdle /\ SmInit /\ NoArtifacts /\ InfoIdle
    /\ session_file = FileAbsent

\* session_manager.py alone, started on any content of the session file
InitSession ==
    /\ cli_flag = NoInput /\ cli_env = NoInput
    /\ CliIdle /\ SmInit /\ LeftArtifacts /\ InfoIdle
    /\ session_file \in FileContents

\* A file name and a path segment longer than the 50 characters of the cap
LongName == "a-very-long-archive-file-name-that-exceeds-fifty-characters.aiida"

\* The strings get_archive_info is called on: the URLs of the command line
\* with at most one part behind the base, long names, and strings that are
\* no URL
InfoInputs ==
    { UrlOf(f) : f \in { g \in FlagInputs : Len(g.tail) <= 1 } }
        \cup { ArchiveHost \o "/records/r1/files/" \o LongName,
               ArchiveHost \o "/files/" \o LongName,
               ArchiveHost \o "/" \o LongName,
               ArchiveHost \o "/" \o LongName \o "/",
               ArchiveHost, ArchiveHost \o "/", "/", "///",
               "not a url", LongName, "http://[", "http://[" \o LongName }

\* get_archive_info alone, on any of the strings
InitInfo ==
    /\ cli_flag = NoInput /\ cli_env = NoInput
    /\ CliIdle /\ SmInit /\ NoArtifacts /\ session_file = FileAbsent
    /\ info_url \in InfoInputs /\ info = PyNone

(***************************************************************************)
(* fetch_mca_metadata.py: one invocation.                                  *)
(***************************************************************************)
\* get_archive_url: args.archive_url or os.environ.get("archive_url")
get_archive_url(flag, env) ==
    IF ~Falsy(UrlOf(flag)) THEN UrlOf(flag) ELSE UrlOf(env)

\* The script runs once, on its command line and environment; the metadata
\* request succeeds or fails
FetchMain ==
    /\ exit_code = -1
    /\ \E api_ok \in BOOLEAN :
        \E r \in { main(get_archive_url(cli_flag, cli_env), api_ok) } :
            /\ archive_url' = get_archive_url(cli_flag, cli_env)
            /\ normalized' = r.normalized
            /\ exit_code' = r.exit_code
            /\ fetched' = r.fetched
            /\ metadata_url' = r.metadata_url
            /\ metadata_filename' = r.metadata_filename
            /\ UNCHANGED <<cli_flag, cli_env, file_vars, sm_vars, info_vars>>

(***************************************************************************)
(* session_manager.py: one invocation of main in process slot p, cut at    *)
(* its accesses to the shared files.                                       *)
(***************************************************************************)
\* The process starts: it reads its environment
SmStart(p) ==
    /\ sm_pc[p] = "idle"
    /\ sm_runs < MaxRuns
    /\ \E env \in Environments, url \in SessionUrls :
        /\ sm_env' = [sm_env EXCEPT ![p] = env]
        /\ sm_url' = [sm_url EXCEPT ![p] = url]
    /\ sm_pc' = [sm_pc EXCEPT ![p] = "check"]
    /\ sm_outcome' = [sm_outcome EXCEPT ![p] = "none"]
    /\ sm_existing' = [sm_existing EXCEPT ![p] = NoneDoc]
    /\ sm_runs' = sm_runs + 1
    /\ UNCHANGED <<cli_vars, info_vars, file_vars, sm_file, sm_data>>

\* The process starts while no other invocation is running
SmStartAlone(p) ==
    /\ \A q \in Procs : sm_pc[q] = "idle"
    /\ SmStart(p)

\* The process exits: its environment and locals are gone, what it printed
\* (the classification, or the traceback) stays on the terminal
Exit(p, outcome) ==
    /\ sm_pc' = [sm_pc EXCEPT ![p] = "idle"]
    /\ sm_outcome' = [sm_outcome EXCEPT ![p] = outcome]
    /\ sm_env' = [sm_env EXCEPT ![p] = NoEnv]
    /\ sm_url' = [sm_url EXCEPT ![p] = PyNone]
    /\ sm_existing' = [sm_existing EXCEPT ![p] = NoneDoc]
    /\ sm_file' = [sm_file EXCEPT ![p] = 0]
    /\ sm_data' = [sm_data EXCEPT ![p] = NoneDoc]
    /\ UNCHANGED sm_runs

\* The invocation ends with a traceback
Abort(p) == Exit(p, "raised")

\* main goes on to the step pc, the clean-up loop at position file
Goto(p, pc, file) ==
    /\ sm_pc' = [sm_pc EXCEPT ![p] = pc]
    /\ sm_file' = [sm_file EXCEPT ![p] = file]
    /\ UNCHANGED <<sm_outcome, sm_env, sm_url, sm_existing, sm_data, sm_runs>>

\* check_session_conflict: reads the session file and classifies
SmCheck(p) ==
    /\ sm_pc[p] = "check"
    /\ LET r == check_session_conflict(session_file, sm_env[p], sm_url[p])
       IN  IF r.raised # ""
           THEN Abort(p)
           ELSE /\ sm_pc' = [sm_pc EXCEPT ![p] = "handle"]
                /\ sm_outcome' = [sm_outcome EXCEPT ![p] = r.outcome]
                /\ sm_existing' = [sm_existing EXCEPT ![p] = r.existing]
                /\ UNCHANGED <<sm_env, sm_url, sm_file, sm_data, sm_runs>>
    /\ UNCHANGED <<cli_vars, info_vars, file_vars>>

\* The files the clean-up loops of main go through, in their order
CleanupPaths == <<"warning", "notice", "summary">>

\* os.path.exists of the clean-up path at position i
Exists(i) ==
    CASE CleanupPaths[i] = "warning" -> warning_file # "absent"
      [] CleanupPaths[i] = "notice"  -> notice_file
      [] OTHER                       -> summary_file # "absent"

\* One os.path.exists test of a clean-up loop, at position i: on to os.remove
\* of that path, to the test of the next path, or out of the loop
TestPath(p, i) ==
    IF Exists(i) THEN Goto(p, "remove", i)
    ELSE IF i < Len(CleanupPaths) THEN Goto(p, "exists", i + 1)
    ELSE Goto(p, "save", 0)

\* The branch of main for the classification.  session_conflict and
\* url_changed: the message is generated and written to the warning file;
\* same_session and new_session: the clean-up loop starts
SmHandle(p) ==
    /\ sm_pc[p] = "handle"
    /\ IF sm_outcome[p] \in {"session_conflict", "url_changed"}
       THEN IF MessageRaises(sm_outcome[p], sm_existing[p])
            THEN Abort(p) /\ UNCHANGED warning_file
            ELSE /\ warning_file' = sm_outcome[p]
                 /\ Goto(p, IF sm_outcome[p] = "session_conflict"
                            THEN "summary" ELSE "save", 0)
       ELSE TestPath(p, 1) /\ UNCHANGED warning_file
    /\ UNCHANGED <<cli_vars, info_vars, session_file, summary_file, notice_file, now>>

\* session_conflict: the summary is written
SmSummary(p) ==
    /\ sm_pc[p] = "summary"
    /\ summary_file' = "session_conflict"
    /\ Goto(p, "save", 0)
    /\ UNCHANGED <<cli_vars, info_vars, session_file, warning_file, notice_file, now>>

\* The clean-up loop tests the next path
SmExists(p) ==
    /\ sm_pc[p] = "exists"
    /\ TestPath(p, sm_file[p])
    /\ UNCHANGED <<cli_vars, info_vars, file_vars>>

\* The clean-up loop removes the path it found; os.remove raises
\* FileNotFoundError when the path is gone by now
SmRemove(p) ==
    /\ sm_pc[p] = "remove"
    /\ IF ~Exists(sm_file[p])
       THEN Abort(p) /\ UNCHANGED <<warning_file, summary_file, notice_file>>
       ELSE /\ IF sm_file[p] < Len(CleanupPaths)
               THEN Goto(p, "exists", sm_file[p] + 1)
               ELSE Goto(p, "save", 0)
            /\ warning_file' = IF CleanupPaths[sm_file[p]] = "warning"
                               THEN "absent" ELSE warning_file
            /\ notice_file' = IF CleanupPaths[sm_file[p]] = "notice"
                              THEN FALSE ELSE notice_file
            /\ summary_file' = IF CleanupPaths[sm_file[p]] = "summary"
                               THEN "absent" ELSE summary_file
    /\ UNCHANGED <<cli_vars, info_vars, session_file, now>>

\* save_current_session, up to open(..., "w"): session_data is built and the
\* session file is truncated
SmSave(p) ==
    /\ sm_pc[p] = "save"
    /\ sm_data' = [sm_data EXCEPT ![p] =
          SessionRecord(sm_env[p],
                        IF Falsy(sm_url[p]) THEN "" ELSE sm_url[p],
                        ToString(now), p)]
    /\ now' = now + 1
    /\ session_file' = FileEmpty
    /\ sm_pc' = [sm_pc EXCEPT ![p] = "close"]
    /\ UNCHANGED <<sm_outcome, sm_env, sm_url, sm_existing, sm_file, sm_runs>>
    /\ UNCHANGED <<cli_vars, info_vars, warning_file, summary_file, notice_file>>

\* save_current_session, the end of the with block: the dump reaches the file
\* at offset 0 when it is closed, and main returns
SmClose(p) ==
    /\ sm_pc[p] = "close"
    /\ session_file' = Overwritten(session_file, sm_data[p])
    /\ Exit(p, sm_outcome[p])
    /\ UNCHANGED <<cli_vars, info_vars, warning_file, summary_file, notice_file, now>>

(***************************************************************************)
(* session_manager.py: one call of get_archive_info.                       *)
(***************************************************************************)
GetArchiveInfo ==
    /\ info = PyNone
    /\ info' = get_archive_info(info_url)
    /\ UNCHANGED <<info_url, cli_vars, file_vars, sm_vars>>

(***************************************************************************)
(* Specifications.                                                         *)
(***************************************************************************)
NextFetch == FetchMain

SpecFetch == InitFetch /\ [][NextFetch]_vars

\* What an invocation does once it has started
SmStep(p) ==
    \/ SmCheck(p) \/ SmHandle(p) \/ SmSummary(p)
    \/ SmExists(p) \/ SmRemove(p) \/ SmSave(p) \/ SmClose(p)

\* Invocations start at any time
NextSession == \E p \in Procs : SmStart(p) \/ SmStep(p)

SpecSession == InitSession /\ [][NextSession]_vars

NextInfo == GetArchiveInfo

SpecInfo == InitInfo /\ [][NextInfo]_vars

\* An invocation starts when the one before has exited
NextSequential == \E p \in Procs : SmStartAlone(p) \/ SmStep(p)

SpecSequential == InitSession /\ [][NextSequential]_vars

(***************************************************************************)
(* Properties of session_manager.py.                                       *)
(***************************************************************************)
\* Process p leaves check_session_conflict in this step
Classifies(p) == sm_pc[p] = "check" /\ sm_pc'[p] # "check"

\* The session file holds a record as save_current_session writes it
HoldsRecord(file) == file.kind = "json" /\ WellFormed(file.doc)

\* The session file holds something, but no object that carries a session_id
HoldsNoRecord(file) ==
    \/ file.kind \in {"unreadable", "undecodable", "invalid_json"}
    \/ /\ file.kind = "json"
       /\ ~(file.doc.t = "obj" /\ "session_id" \in DOMAIN file.doc.fields)

\* C1: on a missing session file or a well-formed record,
\* check_session_conflict returns one of the four outcomes: new_session iff
\* no record is persisted, same_session iff session ids and URLs are equal,
\* url_changed iff the ids are equal and the URLs differ, session_conflict
\* iff the ids differ; with a record it returns that record.
C1_TruthTable ==
    [][\A p \in Procs :
        (Classifies(p) /\ (session_file.kind = "absent"
                            \/ HoldsRecord(session_file))) =>
            LET persisted == session_file.kind = "json"
                rec     == session_file.doc.fields
                same_id == rec["session_id"].v = get_session_id(sm_env[p])
                same_url == rec["archive_url"] = JOf(sm_url[p])
                outcome == sm_outcome'[p]
            IN  /\ outcome \in {"new_session", "same_session", "url_changed",
                                "session_conflict"}
                /\ (outcome = "new_session") <=> ~persisted
                /\ (outcome = "same_session") <=>
                        (persisted /\ same_id /\ same_url)
                /\ (outcome = "url_changed") <=>
                        (persisted /\ same_id /\ ~same_url)
                /\ (outcome = "session_conflict") <=> (persisted /\ ~same_id)
                /\ sm_existing'[p] =
                        IF persisted THEN session_file.doc ELSE NoneDoc
      ]_vars

\* An invocation has classified a record of its own session with another URL
\* while the other invocation has met a record of a foreign session
C1_Witness ==
    \E p, q \in Procs :
        /\ sm_pc[p] = "handle" /\ sm_outcome[p] = "url_changed"
        /\ WellFormed(sm_existing[p])
        /\ sm_existing[p].fields["session_id"].v = get_session_id(sm_env[p])
        /\ sm_pc[q] = "handle" /\ sm_outcome[q] = "session_conflict"

\* C2: on a session file that holds no well-formed record (undecodable or
\* unparseable bytes, an unreadable file, JSON that is no object carrying a
\* session_id) check_session_conflict returns new_session and no record, as
\* for a missing file, and raises nothing.
C2_CorruptAsAbsent ==
    [][\A p \in Procs :
        (Classifies(p) /\ HoldsNoRecord(session_file)) =>
            /\ sm_outcome'[p] = "new_session"
            /\ sm_existing'[p] = NoneDoc
            /\ sm_pc'[p] = "handle"
      ]_vars

(***************************************************************************)
(* Properties of fetch_mca_metadata.py.                                    *)
(***************************************************************************)
\* The script has run
Ran == exit_code # -1

\* normalize_archive_url was called
Normalized == normalized.branch # "not_run"

\* main stopped before the metadata request
Rejected == exit_code = 1 /\ fetched = PyNone /\ metadata_url = PyNone

\* C3: normalize_archive_url is idempotent: normalising its result again
\* returns the result.
C3_Idempotent ==
    Normalized => normalize_archive_url(normalized.url).url = normalized.url

\* scheme://host/records/{record_id}/files/{filename}: a record id without
\* '/', a file name without '/' that ends in .aiida, no query, no fragment
IsCanonicalUrl(u) ==
    LET after   == Find(u, "://")
        slash   == FindFrom(u, "/", after + 3)
        path    == From(u, slash)
        id_to   == RunEnd(path, 10, {"/"})
        name    == From(path, id_to + 8)
    IN  /\ after > 1
        /\ slash > after + 3
        /\ ~Contains(u, "?") /\ ~Contains(u, "#")
        /\ StartsWith(path, "/records/")
        /\ id_to >= 10
        /\ StartsWithAt(path, id_to + 1, "/files/")
        /\ ~Contains(name, "/")
        /\ EndsWith(name, AiidaExt)

\* C4: for a URL base + suffix, suffix a wrapper suffix or a slash and base
\* ending in neither, the string that reaches host and path matching is
\* base: the suffix is removed and nothing else.
C4_ExactSuffixRemoval ==
    \A suffix \in WrapperSuffixes \cup {"/"} :
        (/\ Normalized
         /\ cli_flag.base # PyNone
         /\ cli_flag.tail = <<suffix>>
         /\ \A w \in WrapperSuffixes \cup {"/"} : ~EndsWith(cli_flag.base, w))
        => normalized.matched = cli_flag.base

\* The URL is on the archive host and its path starts with
\* /records/{id}/files/{name}, the decoded name not ending in .aiida
WrongTypeOnArchive(u) ==
    /\ StartsWith(u, ArchiveHost \o "/")
    /\ RecordsFilesMatch(urlparse(u).path).ok
    /\ ~EndsWith(unquote(RecordsFilesMatch(urlparse(u).path).g2), AiidaExt)

\* C5: a URL on the archive host with path /records/{id}/files/{name}, with
\* or without further path segments, whose decoded name does not end in
\* .aiida is rejected: normalize_archive_url returns no canonical URL and
\* main exits non-zero before it requests or writes metadata.
C5_ExtensionGate ==
    (Ran /\ ~Falsy(archive_url) /\ WrongTypeOnArchive(archive_url)) =>
        /\ ~IsCanonicalUrl(normalized.url)
        /\ Rejected

\* The record id R when u is the archive host followed by /records/R or
\* /record/R and nothing else, "" otherwise
RecordOnlyId(u) ==
    LET path == From(u, Len(ArchiveHost) + 1)
        id   == IF StartsWith(path, "/records/") THEN From(path, 10)
                ELSE IF StartsWith(path, "/record/") THEN From(path, 9)
                ELSE ""
    IN  IF StartsWith(u, ArchiveHost \o "/") /\ CharsOf(id) \cap {"/", "?", "#"} = {}
        THEN id ELSE ""

Ambiguous == normalized.branch \in {"old_record", "records_only"}

\* C6 as stated: for every record id R, the archive host followed by
\* /records/R or /record/R is classified as an ambiguous record, no canonical
\* URL is produced and main exits non-zero without a metadata request.
C6_AmbiguousForEveryId ==
    (Ran /\ ~Falsy(archive_url) /\ RecordOnlyId(archive_url) # "") =>
        /\ Ambiguous
        /\ normalized.record_id = RecordOnlyId(archive_url)
        /\ ~IsCanonicalUrl(normalized.url)
        /\ Rejected

\* C6: for every record id R, the archive host followed by /records/R or
\* /record/R is never accepted (no canonical URL, non-zero exit, no metadata
\* request), and it is classified as an ambiguous record naming R unless R
\* is one of the wrapper words content and download, which the suffix
\* stripping removes first.
C6_AmbiguousRejected ==
    (Ran /\ ~Falsy(archive_url) /\ RecordOnlyId(archive_url) # "") =>
        /\ ~IsCanonicalUrl(normalized.url)
        /\ Rejected
        /\ RecordOnlyId(archive_url) \notin {"content", "download"} =>
              /\ Ambiguous
              /\ normalized.record_id = RecordOnlyId(archive_url)

\* A record id that ends in .aiida has been given without a file, and main
\* has turned it down
C6_Witness ==
    /\ archive_url = ArchiveHost \o "/records/x.aiida"
    /\ normalized.branch = "records_only"
    /\ exit_code = 1

\* The API URLs of the model whose decoded file name ends in .aiida: record
\* id, encoded name, decoded name
ApiFiles ==
    { <<"yf0rj-w3r97", "data%20set.aiida", "data set.aiida">>,
      <<"yf0rj-w3r97", "x.aiida%2Fy.aiida", "x.aiida/y.aiida">>,
      <<"x.aiida", "a%2Eaiida", "a.aiida">> }

\* C7: scheme://host/api/records/R/files/F with a percent-encoded F whose
\* decoded form ends in .aiida is mapped to
\* scheme://host/records/R/files/decoded(F).
C7_ApiRewrite ==
    \A f \in ApiFiles :
        (Normalized /\ archive_url = ArchiveHost \o "/api/records/" \o f[1]
                                        \o "/files/" \o f[2])
        => normalized.url = ArchiveHost \o "/records/" \o f[1]
                                \o "/files/" \o f[3]

\* An API URL with an encoded space has been rewritten
C7_Witness ==
    /\ archive_url =
          ArchiveHost \o "/api/records/yf0rj-w3r97/files/data%20set.aiida"
    /\ normalized.branch = "api_rewrite"
    /\ exit_code = 0

\* C8: every archive_url that main writes to the metadata artifact has the
\* canonical form scheme://host/records/{record_id}/files/{filename}.
C8_ArtifactCanonical ==
    metadata_url # PyNone => IsCanonicalUrl(metadata_url)

\* The host of the URL is not in the archive domain
ForeignHost(u) ==
    \E b \in ForeignUrls : StartsWith(u, b)

\* C9: a URL whose host is not in the archive domain is returned without a
\* path rewrite and main rejects it: non-zero exit, no metadata request.
C9_ForeignHostRejected ==
    (Ran /\ ~Falsy(archive_url) /\ ForeignHost(archive_url)) =>
        /\ normalized.url = normalized.matched
        /\ Rejected

ExamplePath == "/records/yf0rj-w3r97/files/data%20set.aiida/content"

\* What the example promises for the URL of the given host
ExampleHolds(host) ==
    (Normalized /\ archive_url = host \o "/api" \o ExamplePath) =>
        /\ normalized.url = host \o "/records/yf0rj-w3r97/files/data set.aiida"
        /\ extract_record_id_from_url(normalized.url) = "yf0rj-w3r97"
        /\ get_archive_filename_from_url(normalized.url) = "data set.aiida"
        /\ exit_code = 0 =>
              /\ fetched = "yf0rj-w3r97"
              /\ metadata_filename = "data set.aiida"

\* C10 as stated: the example on the host archive.example.org.
C10_ExampleAsStated == ExampleHolds(ExampleHost)

\* C10: https://archive.materialscloud.org/api/records/yf0rj-w3r97/files/
\* data%20set.aiida/content is normalised to https://archive.materialscloud.
\* org/records/yf0rj-w3r97/files/data set.aiida, from which the record id
\* yf0rj-w3r97 and the file name 'data set.aiida' are extracted.
C10_Example == ExampleHolds(ArchiveHost)

\* The example URL on the archive host has been processed
C10_Witness ==
    /\ archive_url = ArchiveHost \o "/api" \o ExamplePath
    /\ exit_code = 0
    /\ metadata_url = ArchiveHost \o "/records/yf0rj-w3r97/files/data set.aiida"

\* The URL normalize_archive_url was called on reached the query-stripping
\* step: it took a recursive call
Retried == Normalized /\ normalized.calls > 1

\* C11: normalize_archive_url returns for every input, and a top-level call
\* strips the query at most once: it makes at most one recursive call, on a
\* URL without '?', and that call returns without recursing.
C11_QueryStrippedOnce ==
    Normalized =>
        /\ normalized.calls \in {1, 2}
        /\ normalized.calls = 2 =>
              /\ Contains(normalized.matched, "?")
              /\ ~Contains(SplitFirst(normalized.matched, "?"), "?")
              /\ normalize_archive_url(
                     SplitFirst(normalized.matched, "?")).calls = 1

\* A URL with two '?' has been normalised through the query-stripping step
C11_Witness ==
    /\ Retried
    /\ Find(normalized.matched, "?") # RFind(normalized.matched, "?")

(***************************************************************************)
(* Properties of session_manager.py: runs of main.                         *)
(***************************************************************************)
\* The four classifications
Classifications ==
    {"new_session", "same_session", "url_changed", "session_conflict"}

\* Process p returns from main in this step
Finishes(p) == sm_pc[p] = "close" /\ sm_pc'[p] = "idle"

\* The archive_url member save_current_session is given for the input url
PersistedUrl(url) == IF Falsy(url) THEN "" ELSE url

\* C12: when invocations do not overlap, the session file changes only while
\* an invocation saves, and when an invocation returns the file holds exactly
\* one record: the session id of that invocation's environment, its archive
\* URL (empty when none was given), its timestamp and its pid, whatever its
\* classification was.
C12_LastRecordPersisted ==
    [][/\ (\A p \in Procs : sm_pc[p] \notin {"save", "close"}) =>
              session_file' = session_file
       /\ \A p \in Procs : Finishes(p) =>
            /\ sm_outcome'[p] \in Classifications
            /\ session_file'.kind = "json"
            /\ WellFormed(session_file'.doc)
            /\ session_file'.doc.fields =
                 [k \in {"session_id", "archive_url", "timestamp", "pid"} |->
                    CASE k = "session_id"  -> JStr(get_session_id(sm_env[p]))
                      [] k = "archive_url" -> JStr(PersistedUrl(sm_url[p]))
                      [] k = "timestamp"   -> sm_data[p].fields["timestamp"]
                      [] OTHER             -> JNum(p)]
      ]_vars

\* A second invocation, classified session_conflict, has returned and its
\* record without URL has replaced the record of the first
C12_Witness ==
    /\ sm_runs = 2
    /\ \A p \in Procs : sm_pc[p] = "idle"
    /\ \E p \in Procs :
        /\ sm_outcome[p] = "session_conflict"
        /\ session_file.kind = "json"
        /\ WellFormed(session_file.doc)
        /\ session_file.doc.fields["pid"] = JNum(p)
        /\ session_file.doc.fields["timestamp"] = JStr("1")
        /\ session_file.doc.fields["archive_url"] = JStr("")

\* Both process slots have run main to its end and no invocation is running
BothReturned ==
    \A p \in Procs : sm_pc[p] = "idle" /\ sm_outcome[p] \in Classifications

\* C13: once two invocations that ran at the same time have both returned,
\* the session file holds one complete record, the record one of them wrote
\* (a lost update), never mixed, partial or absent content.
C13_LostUpdateOnly ==
    BothReturned =>
        /\ session_file.kind = "json"
        /\ WellFormed(session_file.doc)
        /\ \E p \in Procs : session_file.doc.fields["pid"] = JNum(p)

\* Process p has been classified and is still running
Classified(p) == sm_pc[p] \notin {"idle", "check"}

\* C14: whenever two invocations with different session ids run at the same
\* time and both have been classified, at least one of them is classified
\* session_conflict.
C14_ConflictSurfaced ==
    \A p, q \in Procs :
        (/\ p # q
         /\ Classified(p) /\ Classified(q)
         /\ get_session_id(sm_env[p]) # get_session_id(sm_env[q])) =>
            "session_conflict" \in {sm_outcome[p], sm_outcome[q]}

\* C15: once check_session_conflict has classified an invocation, main runs
\* to its end without raising, whatever record it found and whatever another
\* invocation does to the warning artifacts meanwhile.
C15_ConflictsNonFatal ==
    [][\A p \in Procs : Classified(p) => sm_outcome'[p] # "raised"]_vars

\* The session file holds the record an earlier invocation of this behaviour
\* persisted in the environment and for the input of process p
HoldsOwnRecord(p) ==
    /\ HoldsRecord(session_file)
    /\ \E q \in Procs : session_file.doc.fields["pid"] = JNum(q)
    /\ session_file.doc.fields["session_id"] =
          JStr(get_session_id(sm_env[p]))
    /\ session_file.doc.fields["archive_url"] =
          JStr(PersistedUrl(sm_url[p]))

\* C17: an invocation that finds the record which an invocation in the same
\* environment and with the same input (a URL or none) persisted just before
\* is classified same_session.
C17_SecondRunSameSession ==
    [][\A p \in Procs :
        (Classifies(p) /\ HoldsOwnRecord(p)) =>
            sm_outcome'[p] = "same_session"
      ]_vars

\* C18: when an invocation returns, the warning text exists iff it was
\* classified url_changed or session_conflict, and the conflict summary
\* exists iff it was classified session_conflict.
C18_ArtifactsOfLastRun ==
    [][\A p \in Procs : Finishes(p) =>
          /\ (warning_file' # "absent") <=>
                (sm_outcome'[p] \in {"url_changed", "session_conflict"})
          /\ (summary_file' # "absent") <=>
                (sm_outcome'[p] = "session_conflict")
      ]_vars

(***************************************************************************)
(* Properties of get_archive_info.                                         *)
(***************************************************************************)
\* get_archive_info has returned
Informed == info # PyNone

\* Neither a file name nor a non-empty last path segment can be derived from
\* the URL
NothingToShow(url) ==
    \/ UrlparseRaises(url)
    \/ /\ ~FilesSearch(urlparse(url).path).ok
       /\ SplitLast(strip_chars(urlparse(url).path, "/"), "/") = ""

\* C16: get_archive_info returns a string of at most 53 characters (the cap
\* of 50 and the ellipsis) for every input string, and the raw URL cut to the
\* cap when neither a file name nor a non-empty last path segment can be
\* derived from it.
C16_BoundedInfo ==
    Informed =>
        /\ Len(info) <= 53
        /\ (~Falsy(info_url) /\ NothingToShow(info_url)) =>
              info = Truncated(info_url)

====
